---- MODULE Spec2Model ----
(***************************************************************************)
(* Model of scripts/spark_etl.py: the bike-hire ETL job.  A dataframe is a *)
(* list of column names and a bag (unordered multiset) of rows; a row is a *)
(* tuple of cells, one per column.  The Spark operations the script calls  *)
(* (join, withColumn, withColumnRenamed, drop, select, groupBy/agg, cast,  *)
(* to_timestamp, to_date, concat) are modelled with Spark 3 default        *)
(* (non-ANSI) semantics: a failed parse gives NULL, NULL never satisfies   *)
(* an equality join, an unresolvable or ambiguous column name raises an    *)
(* AnalysisException when the transformation is built.                     *)
(***************************************************************************)
EXTENDS Bags, FiniteSets, Integers, Sequences, TLC

(***************************************************************************)
(* Cells.  Every cell is a one-field record so that cells of different     *)
(* types compare unequal instead of being incomparable.                    *)
(***************************************************************************)
Null == [null |-> TRUE]
StrV(s) == [str |-> s]
IntV(n) == [int |-> n]
FloatV(m, e) == [float |-> <<m, e>>]
TsV(y, mo, d, h, mi) == [ts |-> <<y, mo, d, h, mi>>]
DateV(y, mo, d) == [date |-> <<y, mo, d>>]

IsStr(c) == DOMAIN c = {"str"}
IsInt(c) == DOMAIN c = {"int"}
IsTimestamp(c) == DOMAIN c = {"ts"}
IsDate(c) == DOMAIN c = {"date"}

AnalysisException == [error |-> "AnalysisException"]
IsFrame(x) == DOMAIN x = {"cols", "rows"}
Frame(cols, rows) == [cols |-> cols, rows |-> rows]

(***************************************************************************)
(* Text helpers.                                                           *)
(***************************************************************************)
Digits == "0123456789"
CharAt(s, i) == SubSeq(s, i, i)
IsDigit(c) == \E i \in 1..10 : CharAt(Digits, i) = c
DigitVal(c) == (CHOOSE i \in 1..10 : CharAt(Digits, i) = c) - 1

RECURSIVE AllDigits(_)
AllDigits(s) == IF Len(s) = 0 THEN TRUE
                ELSE IsDigit(Head(s)) /\ AllDigits(Tail(s))

RECURSIVE NumVal(_, _)
NumVal(s, acc) == IF Len(s) = 0 THEN acc
                  ELSE NumVal(Tail(s), acc * 10 + DigitVal(Head(s)))

RECURSIVE TrimLeft(_)
TrimLeft(s) == IF Len(s) > 0 /\ Head(s) = " " THEN TrimLeft(Tail(s)) ELSE s

RECURSIVE TrimRight(_)
TrimRight(s) == IF Len(s) > 0 /\ CharAt(s, Len(s)) = " "
                THEN TrimRight(SubSeq(s, 1, Len(s) - 1)) ELSE s

Trim(s) == TrimRight(TrimLeft(s))

\* position of the first "." in s, or 0
DotPos(s) == IF \E i \in 1..Len(s) : CharAt(s, i) = "."
             THEN CHOOSE i \in 1..Len(s) :
                    /\ CharAt(s, i) = "."
                    /\ \A j \in 1..(i - 1) : CharAt(s, j) # "."
             ELSE 0

IntMax == 2147483647

(***************************************************************************)
(* Column.cast(IntegerType()) on a string column: surrounding blanks are   *)
(* trimmed, an optional sign, digits, and an optional fraction that is     *)
(* truncated; anything else, and any value outside 32 bits, is NULL.       *)
(***************************************************************************)
CastInteger(c) ==
  IF ~IsStr(c) THEN Null
  ELSE LET t == Trim(c.str)
           neg == Len(t) > 0 /\ Head(t) = "-"
           body == IF Len(t) > 0 /\ Head(t) \in {"-", "+"} THEN Tail(t) ELSE t
           dot == DotPos(body)
           whole == IF dot = 0 THEN body ELSE SubSeq(body, 1, dot - 1)
           frac == IF dot = 0 THEN "" ELSE SubSeq(body, dot + 1, Len(body))
       IN IF Len(body) = 0 \/ (Len(whole) = 0 /\ Len(frac) = 0)
             \/ ~AllDigits(whole) \/ ~AllDigits(frac) \/ Len(whole) > 10
          THEN Null
          ELSE LET v == NumVal(whole, 0)
               IN IF neg THEN (IF v > IntMax + 1 THEN Null ELSE IntV(0 - v))
                  ELSE (IF v > IntMax THEN Null ELSE IntV(v))

RECURSIVE StripZeros(_)
StripZeros(s) == IF Len(s) > 0 /\ CharAt(s, Len(s)) = "0"
                 THEN StripZeros(SubSeq(s, 1, Len(s) - 1)) ELSE s

(***************************************************************************)
(* Column.cast(FloatType()) on a string column, for plain decimal text:    *)
(* the value is kept as mantissa and number of decimals.                   *)
(***************************************************************************)
CastFloat(c) ==
  IF ~IsStr(c) THEN Null
  ELSE LET t == Trim(c.str)
           neg == Len(t) > 0 /\ Head(t) = "-"
           body == IF Len(t) > 0 /\ Head(t) \in {"-", "+"} THEN Tail(t) ELSE t
           dot == DotPos(body)
           whole == IF dot = 0 THEN body ELSE SubSeq(body, 1, dot - 1)
           frac == IF dot = 0 THEN ""
                   ELSE StripZeros(SubSeq(body, dot + 1, Len(body)))
       IN IF Len(body) = 0 \/ (Len(whole) = 0 /\ Len(frac) = 0)
             \/ ~AllDigits(whole) \/ ~AllDigits(frac)
          THEN Null
          ELSE LET m == NumVal(whole \o frac, 0)
               IN FloatV(IF neg THEN 0 - m ELSE m, Len(frac))

(***************************************************************************)
(* Calendar.                                                               *)
(***************************************************************************)
IsLeap(y) == (y % 4 = 0 /\ y % 100 # 0) \/ y % 400 = 0
DaysInMonth(y, mo) == IF mo = 2 THEN (IF IsLeap(y) THEN 29 ELSE 28)
                      ELSE IF mo \in {4, 6, 9, 11} THEN 30 ELSE 31
ValidDate(y, mo, d) == mo \in 1..12 /\ d >= 1 /\ d <= DaysInMonth(y, mo)

\* variant: the pattern read as "MM/dd/yyyy HH:mm"
ParseTripTimestamp_monthFirst(c) ==
  IF ~IsStr(c) THEN Null
  ELSE LET s == c.str
       IN IF Len(s) # 16 THEN Null
          ELSE LET mm == SubSeq(s, 1, 2)
                   dd == SubSeq(s, 4, 5)
                   yy == SubSeq(s, 7, 10)
                   hh == SubSeq(s, 12, 13)
                   mi == SubSeq(s, 15, 16)
               IN IF /\ CharAt(s, 3) = "/" /\ CharAt(s, 6) = "/"
                     /\ CharAt(s, 11) = " " /\ CharAt(s, 14) = ":"
                     /\ AllDigits(dd) /\ AllDigits(mm) /\ AllDigits(yy)
                     /\ AllDigits(hh) /\ AllDigits(mi)
                     /\ ValidDate(NumVal(yy, 0), NumVal(mm, 0), NumVal(dd, 0))
                     /\ NumVal(hh, 0) <= 23 /\ NumVal(mi, 0) <= 59
                  THEN TsV(NumVal(yy, 0), NumVal(mm, 0), NumVal(dd, 0),
                           NumVal(hh, 0), NumVal(mi, 0))
                  ELSE Null

(***************************************************************************)
(* to_timestamp(col, "dd/MM/yyyy HH:mm"): two-digit day, month, four-digit *)
(* year, two-digit hour and minute, strict calendar; otherwise NULL.       *)
(***************************************************************************)
ParseTripTimestamp(c) ==
  IF ~IsStr(c) THEN Null
  ELSE LET s == c.str
       IN IF Len(s) # 16 THEN Null
          ELSE LET dd == SubSeq(s, 1, 2)
                   mm == SubSeq(s, 4, 5)
                   yy == SubSeq(s, 7, 10)
                   hh == SubSeq(s, 12, 13)
                   mi == SubSeq(s, 15, 16)
               IN IF /\ CharAt(s, 3) = "/" /\ CharAt(s, 6) = "/"
                     /\ CharAt(s, 11) = " " /\ CharAt(s, 14) = ":"
                     /\ AllDigits(dd) /\ AllDigits(mm) /\ AllDigits(yy)
                     /\ AllDigits(hh) /\ AllDigits(mi)
                     /\ ValidDate(NumVal(yy, 0), NumVal(mm, 0), NumVal(dd, 0))
                     /\ NumVal(hh, 0) <= 23 /\ NumVal(mi, 0) <= 59
                  THEN TsV(NumVal(yy, 0), NumVal(mm, 0), NumVal(dd, 0),
                                 NumVal(hh, 0), NumVal(mi, 0))
                  ELSE Null

(***************************************************************************)
(* to_timestamp(col, "yyyy-MM-dd"): midnight of the day, or NULL.          *)
(***************************************************************************)
ParseWeatherTimestamp(c) ==
  IF ~IsStr(c) THEN Null
  ELSE LET s == c.str
       IN IF Len(s) # 10 THEN Null
          ELSE LET yy == SubSeq(s, 1, 4)
                   mm == SubSeq(s, 6, 7)
                   dd == SubSeq(s, 9, 10)
               IN IF /\ CharAt(s, 5) = "-" /\ CharAt(s, 8) = "-"
                     /\ AllDigits(dd) /\ AllDigits(mm) /\ AllDigits(yy)
                     /\ ValidDate(NumVal(yy, 0), NumVal(mm, 0), NumVal(dd, 0))
                  THEN TsV(NumVal(yy, 0), NumVal(mm, 0), NumVal(dd, 0), 0, 0)
                  ELSE Null

\* variant: the time of day is kept
ToDate_keepTime(c) == IF IsTimestamp(c) \/ IsDate(c) THEN c ELSE Null

\* to_date(col) on a timestamp column: the time of day is discarded
ToDate(c) == IF IsTimestamp(c) THEN DateV(c.ts[1], c.ts[2], c.ts[3])
             ELSE IF IsDate(c) THEN c
             ELSE Null

\* variant: the outer arguments exchanged
Concat3_swapped(a, b, c) == IF IsStr(a) /\ IsStr(b) /\ IsStr(c)
                            THEN StrV(c.str \o b.str \o a.str)
                            ELSE Null

\* concat(a, b, c): NULL as soon as one argument is NULL
Concat3(a, b, c) == IF IsStr(a) /\ IsStr(b) /\ IsStr(c)
                    THEN StrV(a.str \o b.str \o c.str)
                    ELSE Null

(***************************************************************************)
(* Bags of rows.                                                           *)
(***************************************************************************)
RECURSIVE SumCounts(_, _)
SumCounts(S, B) == IF S = {} THEN 0
                   ELSE LET x == CHOOSE y \in S : TRUE
                        IN B[x] + SumCounts(S \ {x}, B)

\* the bag of f[r] for r in B, with multiplicities
BagMap(f, B) ==
  [y \in {f[x] : x \in DOMAIN B} |-> SumCounts({x \in DOMAIN B : f[x] = y}, B)]

BagSize(B) == SumCounts(DOMAIN B, B)

SeqToBag(s) == [x \in {s[i] : i \in DOMAIN s} |->
                  Cardinality({i \in DOMAIN s : s[i] = x})]

(***************************************************************************)
(* Column resolution.  A name resolves when exactly one column carries it. *)
(* Names are compared as written; no two names used here differ by case    *)
(* only, so Spark's case-insensitive resolver gives the same answers.      *)
(***************************************************************************)
ColIdx(cols, name) == {i \in 1..Len(cols) : cols[i] = name}
Resolves(cols, name) == Cardinality(ColIdx(cols, name)) = 1
ColPos(cols, name) == CHOOSE i \in ColIdx(cols, name) : TRUE
Cell(df, r, name) == r[ColPos(df.cols, name)]

(***************************************************************************)
(* DataFrame.withColumn(name, f): f gives the new cell of each row.  The   *)
(* column(s) of that name are replaced in place, or a last column added.   *)
(***************************************************************************)
withColumn(df, name, f) ==
  LET NewRow == [r \in DOMAIN df.rows |->
                   IF ColIdx(df.cols, name) # {}
                   THEN [i \in 1..Len(df.cols) |->
                           IF df.cols[i] = name THEN f[r] ELSE r[i]]
                   ELSE Append(r, f[r])]
  IN Frame(IF ColIdx(df.cols, name) # {} THEN df.cols
           ELSE Append(df.cols, name),
           BagMap(NewRow, df.rows))

\* DataFrame.withColumnRenamed: a no-op when no column is named old
withColumnRenamed(df, old, new) ==
  Frame([i \in 1..Len(df.cols) |-> IF df.cols[i] = old THEN new ELSE df.cols[i]],
        df.rows)

RECURSIVE KeptIdx(_, _, _)
KeptIdx(cols, names, i) ==
  IF i > Len(cols) THEN <<>>
  ELSE (IF cols[i] \in names THEN <<>> ELSE <<i>>) \o KeptIdx(cols, names, i + 1)

\* DataFrame.drop(*names): removes every column so named, silently
drop(df, names) ==
  LET keep == KeptIdx(df.cols, names, 1)
      Proj == [r \in DOMAIN df.rows |-> [k \in 1..Len(keep) |-> r[keep[k]]]]
  IN Frame([k \in 1..Len(keep) |-> df.cols[keep[k]]], BagMap(Proj, df.rows))

\* variant: names that do not resolve are left out instead of raising
select_lenient(df, names) ==
  LET found == SelectSeq(names, LAMBDA c : Resolves(df.cols, c))
      Proj == [r \in DOMAIN df.rows |->
                 [k \in 1..Len(found) |-> r[ColPos(df.cols, found[k])]]]
  IN Frame(found, BagMap(Proj, df.rows))

\* DataFrame.select(*names): every name must resolve
select(df, names) ==
  IF \A k \in 1..Len(names) : Resolves(df.cols, names[k])
  THEN LET Proj == [r \in DOMAIN df.rows |->
                       [k \in 1..Len(names) |-> r[ColPos(df.cols, names[k])]]]
       IN Frame(names, BagMap(Proj, df.rows))
  ELSE AnalysisException

(***************************************************************************)
(* left.join(right, [left[lkey] == right[rkey]]): inner equi-join.  The    *)
(* comparison is NULL, hence not satisfied, when either side is NULL.      *)
(***************************************************************************)
KeysMatch(a, b) == a # Null /\ b # Null /\ a = b

\* variant: a left outer join, unmatched left rows padded with NULLs
join_left(left, right, lkey, rkey) ==
  LET n == Len(left.cols)
      lp == ColPos(left.cols, lkey)
      rp == ColPos(right.cols, rkey)
      matched == {p[1] \o p[2] :
                    p \in {q \in (DOMAIN left.rows) \X (DOMAIN right.rows) :
                             KeysMatch(q[1][lp], q[2][rp])}}
      alone == {l \in DOMAIN left.rows :
                  \A r \in DOMAIN right.rows : ~KeysMatch(l[lp], r[rp])}
      Pad(l) == l \o [i \in 1..Len(right.cols) |-> Null]
  IN Frame(left.cols \o right.cols,
           [z \in matched \cup {Pad(l) : l \in alone} |->
              IF z \in matched
              THEN left.rows[SubSeq(z, 1, n)] * right.rows[SubSeq(z, n + 1, Len(z))]
              ELSE left.rows[SubSeq(z, 1, n)]])

join(left, right, lkey, rkey) ==
  LET n == Len(left.cols)
      lp == ColPos(left.cols, lkey)
      rp == ColPos(right.cols, rkey)
      matched == {p[1] \o p[2] :
                    p \in {q \in (DOMAIN left.rows) \X (DOMAIN right.rows) :
                             KeysMatch(q[1][lp], q[2][rp])}}
  IN Frame(left.cols \o right.cols,
           [z \in matched |-> left.rows[SubSeq(z, 1, n)]
                              * right.rows[SubSeq(z, n + 1, Len(z))]])

(***************************************************************************)
(* get_station_location                                                    *)
(***************************************************************************)
get_station_location(df, df_station, start_or_end) ==
  LET left_key == IF start_or_end = "start" THEN "StartStation Id"
                  ELSE "EndStation Id"
      column_location_name == IF start_or_end = "start" THEN "start_location"
                              ELSE "end_location"
  IN IF ~Resolves(df.cols, left_key) \/ ~Resolves(df_station.cols, "id")
     THEN AnalysisException
     ELSE LET j == join(df, df_station, left_key, "id")
          IN IF ~Resolves(j.cols, "latitude") \/ ~Resolves(j.cols, "longitude")
             THEN AnalysisException
             ELSE LET Loc == [r \in DOMAIN j.rows |->
                                 Concat3(Cell(j, r, "latitude"), StrV(", "),
                                         Cell(j, r, "longitude"))]
                  IN drop(withColumn(j, column_location_name, Loc),
                          {"id", "latitude", "longitude"})

(***************************************************************************)
(* format_datetime                                                         *)
(***************************************************************************)
format_datetime(df, column_name) ==
  IF ~Resolves(df.cols, column_name) THEN AnalysisException
  ELSE LET P == [r \in DOMAIN df.rows |->
                    ParseTripTimestamp(Cell(df, r, column_name))]
       IN withColumn(df, column_name, P)

(***************************************************************************)
(* df_preparation_to_bq                                                    *)
(***************************************************************************)
\* variant: the two date columns exchanged
RenameTable_datesSwapped ==
  << <<"Rental Id", "rental_id">>, <<"Duration", "duration">>,
     <<"Bike Id", "bike_id">>, <<"End Date", "start_date">>,
     <<"EndStation Id", "end_station_id">>,
     <<"EndStation Name", "end_station_name">>,
     <<"Start Date", "end_date">>,
     <<"StartStation Id", "start_station_id">>,
     <<"StartStation Name", "start_station_name">> >>

RenameTable == << <<"Rental Id", "rental_id">>, <<"Duration", "duration">>,
                  <<"Bike Id", "bike_id">>, <<"End Date", "end_date">>,
                  <<"EndStation Id", "end_station_id">>,
                  <<"EndStation Name", "end_station_name">>,
                  <<"Start Date", "start_date">>,
                  <<"StartStation Id", "start_station_id">>,
                  <<"StartStation Name", "start_station_name">> >>

CanonicalColumns == <<"rental_id", "duration", "bike_id", "start_date",
                      "start_station_id", "start_station_name", "start_location",
                      "end_date", "end_station_id", "end_station_name",
                      "end_location">>

RECURSIVE RenameAll(_, _)
RenameAll(df, k) ==
  IF k > Len(RenameTable) THEN df
  ELSE RenameAll(withColumnRenamed(df, RenameTable[k][1], RenameTable[k][2]), k + 1)

df_preparation_to_bq(df) == select(RenameAll(df, 1), CanonicalColumns)

(***************************************************************************)
(* Ordering of strings, for max() over a string column: byte order.        *)
(***************************************************************************)
Alphabet == " +,-./0123456789:ABCDEFGHIJKLMNOPQRSTUVWXYZ_abcdefghijklmnopqrstuvwxyz"
CharOrd(c) == CHOOSE i \in 1..Len(Alphabet) : CharAt(Alphabet, i) = c

RECURSIVE StrLess(_, _)
StrLess(a, b) ==
  IF Len(b) = 0 THEN FALSE
  ELSE IF Len(a) = 0 THEN TRUE
  ELSE IF Head(a) = Head(b) THEN StrLess(Tail(a), Tail(b))
  ELSE CharOrd(Head(a)) < CharOrd(Head(b))

\* max(col) over a group: NULLs are ignored, an all-NULL group gives NULL
MaxStr(cells) ==
  LET vals == {c \in cells : IsStr(c)}
  IN IF vals = {} THEN Null
     ELSE CHOOSE m \in vals : \A x \in vals : x = m \/ StrLess(x.str, m.str)

RECURSIVE SumInt(_, _, _)
SumInt(S, B, p) ==
  IF S = {} THEN 0
  ELSE LET r == CHOOSE x \in S : TRUE
       IN B[r] * r[p].int + SumInt(S \ {r}, B, p)

\* sum(col) over a group: NULLs are ignored, an all-NULL group gives NULL
SumCol(group, B, p) ==
  LET vals == {r \in group : IsInt(r[p])}
  IN IF vals = {} THEN Null ELSE IntV(SumInt(vals, B, p))

\* variant: count("*"), every row counted
CountCol_all(group, B, p) == IntV(SumCounts(group, B))

\* count(col) over a group: the number of rows whose cell is not NULL
CountCol(group, B, p) == IntV(SumCounts({r \in group : r[p] # Null}, B))

(***************************************************************************)
(* get_daily_agg                                                           *)
(***************************************************************************)
DailyAggColumns == <<"start_date", "start_station_id", "start_station_name",
                     "start_location", "total_duration", "hire_count">>

get_daily_agg(df) ==
  IF \E c \in {"start_date", "end_date", "start_station_id", "start_station_name",
               "start_location", "duration", "rental_id"} : ~Resolves(df.cols, c)
  THEN AnalysisException
  ELSE
    LET SD == [r \in DOMAIN df.rows |-> ToDate(Cell(df, r, "start_date"))]
        d1 == withColumn(df, "start_date", SD)
        ED == [r \in DOMAIN d1.rows |-> ToDate(Cell(d1, r, "end_date"))]
        d2 == withColumn(d1, "end_date", ED)
        pd == ColPos(d2.cols, "start_date")
        ps == ColPos(d2.cols, "start_station_id")
        keys == {<<r[pd], r[ps]>> : r \in DOMAIN d2.rows}
        Group(k) == {r \in DOMAIN d2.rows : r[pd] = k[1] /\ r[ps] = k[2]}
        Agg(k) == <<k[1], k[2],
                    MaxStr({r[ColPos(d2.cols, "start_station_name")] : r \in Group(k)}),
                    MaxStr({r[ColPos(d2.cols, "start_location")] : r \in Group(k)}),
                    SumCol(Group(k), d2.rows, ColPos(d2.cols, "duration")),
                    CountCol(Group(k), d2.rows, ColPos(d2.cols, "rental_id"))>>
    IN Frame(DailyAggColumns, [row \in {Agg(k) : k \in keys} |-> 1])

(***************************************************************************)
(* get_datetime_weather                                                    *)
(***************************************************************************)
get_datetime_weather(df) ==
  IF ~Resolves(df.cols, "date") THEN AnalysisException
  ELSE LET T == [r \in DOMAIN df.rows |->
                    ParseWeatherTimestamp(Cell(df, r, "date"))]
           d1 == withColumn(df, "date", T)
           D == [r \in DOMAIN d1.rows |-> ToDate(Cell(d1, r, "date"))]
       IN withColumn(d1, "date", D)

(***************************************************************************)
(* get_weather_data                                                        *)
(***************************************************************************)
\* variant: the weather date column is kept
get_weather_data_keepDate(df, df_weather) ==
  IF ~Resolves(df.cols, "start_date") \/ ~Resolves(df_weather.cols, "date")
  THEN AnalysisException
  ELSE join(df, df_weather, "start_date", "date")

\* variant: how="left"
get_weather_data_left(df, df_weather) ==
  IF ~Resolves(df.cols, "start_date") \/ ~Resolves(df_weather.cols, "date")
  THEN AnalysisException
  ELSE drop(join_left(df, df_weather, "start_date", "date"), {"date"})

get_weather_data(df, df_weather) ==
  IF ~Resolves(df.cols, "start_date") \/ ~Resolves(df_weather.cols, "date")
  THEN AnalysisException
  ELSE drop(join(df, df_weather, "start_date", "date"), {"date"})

\* withColumn(name, df[name].cast(IntegerType())) and the same with FloatType
CastColumn(df, name, type) ==
  IF ~Resolves(df.cols, name) THEN AnalysisException
  ELSE LET C == [r \in DOMAIN df.rows |->
                    IF type = "IntegerType" THEN CastInteger(Cell(df, r, name))
                    ELSE CastFloat(Cell(df, r, name))]
       IN withColumn(df, name, C)

(***************************************************************************)
(* State of one invocation of run().                                       *)
(*   csv_trips, csv_station, csv_weather: the three input files, as read   *)
(*     with header=True (every cell a string, or NULL for an empty field); *)
(*   df, df_station, df_weather, df_daily_agg: the locals of run();        *)
(*   bq_hires, bq_daily: the batches appended to the destination tables;   *)
(*   pc: the statement of run() about to execute;                          *)
(*   exc: the exception that ended the run, if any.                        *)
(***************************************************************************)
VARIABLES csv_trips, csv_station, csv_weather,
          df, df_station, df_weather, df_daily_agg,
          bq_hires, bq_daily, pc, exc

vars == <<csv_trips, csv_station, csv_weather, df, df_station, df_weather,
          df_daily_agg, bq_hires, bq_daily, pc, exc>>

inputs == <<csv_trips, csv_station, csv_weather>>

Unbound == [unbound |-> TRUE]

\* variant: nothing is appended
load_to_bq_skip(table, frame) == table

\* load_to_bq: mode("append") adds the frame's rows to the table
load_to_bq(table, frame) == Append(table, frame)

Running(at) == pc = at /\ exc = "none"

\* the statement raised: the run ends where it is
Raise(e) == /\ exc' = e
            /\ UNCHANGED <<inputs, df, df_station, df_weather, df_daily_agg,
                           bq_hires, bq_daily, pc>>

\* line 104
ReadStation ==
  /\ Running("read_station")
  /\ LET res == select(csv_station, <<"id", "latitude", "longitude">>)
     IN IF IsFrame(res)
        THEN /\ df_station' = res
             /\ pc' = "read_weather"
             /\ UNCHANGED <<inputs, df, df_weather, df_daily_agg, bq_hires,
                            bq_daily, exc>>
        ELSE Raise("AnalysisException")

\* lines 105-107
ReadWeather ==
  /\ Running("read_weather")
  /\ LET w1 == CastColumn(csv_weather, "prcp", "FloatType")
         res == IF IsFrame(w1) THEN CastColumn(w1, "tavg", "FloatType") ELSE w1
     IN IF IsFrame(res)
        THEN /\ df_weather' = res
             /\ pc' = "read_trips"
             /\ UNCHANGED <<inputs, df, df_station, df_daily_agg, bq_hires,
                            bq_daily, exc>>
        ELSE Raise("AnalysisException")

\* the statements of run() that rebind df
DfStep(at, res, next) ==
  /\ Running(at)
  /\ IF IsFrame(res)
     THEN /\ df' = res
          /\ pc' = next
          /\ UNCHANGED <<inputs, df_station, df_weather, df_daily_agg, bq_hires,
                         bq_daily, exc>>
     ELSE Raise("AnalysisException")

\* lines 108-109
ReadTrips == DfStep("read_trips", CastColumn(csv_trips, "Duration", "IntegerType"),
                    "geo_start")
\* line 110
GeoStart == DfStep("geo_start", get_station_location(df, df_station, "start"),
                   "geo_end")
\* line 111
GeoEnd == DfStep("geo_end", get_station_location(df, df_station, "end"),
                 "format_start")
\* line 112
FormatStart == DfStep("format_start", format_datetime(df, "Start Date"),
                      "format_end")
\* line 113
FormatEnd == DfStep("format_end", format_datetime(df, "End Date"), "prepare")
\* line 115
Prepare == DfStep("prepare", df_preparation_to_bq(df), "load_hires")

\* line 116
LoadHires ==
  /\ Running("load_hires")
  /\ bq_hires' = load_to_bq(bq_hires, df)
  /\ pc' = "daily_agg"
  /\ UNCHANGED <<inputs, df, df_station, df_weather, df_daily_agg, bq_daily, exc>>

\* line 118
DailyAgg ==
  /\ Running("daily_agg")
  /\ LET res == get_daily_agg(df)
     IN IF IsFrame(res)
        THEN /\ df_daily_agg' = res
             /\ pc' = "datetime_weather"
             /\ UNCHANGED <<inputs, df, df_station, df_weather, bq_hires,
                            bq_daily, exc>>
        ELSE Raise("AnalysisException")

\* line 120
DatetimeWeather ==
  /\ Running("datetime_weather")
  /\ LET res == get_datetime_weather(df_weather)
     IN IF IsFrame(res)
        THEN /\ df_weather' = res
             /\ pc' = "weather_join"
             /\ UNCHANGED <<inputs, df, df_station, df_daily_agg, bq_hires,
                            bq_daily, exc>>
        ELSE Raise("AnalysisException")

\* line 121
WeatherJoin ==
  /\ Running("weather_join")
  /\ LET res == get_weather_data(df_daily_agg, df_weather)
     IN IF IsFrame(res)
        THEN /\ df_daily_agg' = res
             /\ pc' = "load_daily"
             /\ UNCHANGED <<inputs, df, df_station, df_weather, bq_hires,
                            bq_daily, exc>>
        ELSE Raise("AnalysisException")

\* line 123
LoadDaily ==
  /\ Running("load_daily")
  /\ bq_daily' = load_to_bq(bq_daily, df_daily_agg)
  /\ pc' = "stop"
  /\ UNCHANGED <<inputs, df, df_station, df_weather, df_daily_agg, bq_hires, exc>>

\* lines 124-126
Stop ==
  /\ Running("stop")
  /\ pc' = "done"
  /\ UNCHANGED <<inputs, df, df_station, df_weather, df_daily_agg, bq_hires,
                 bq_daily, exc>>

(***************************************************************************)
(* The execution engine or the warehouse fails.  The script builds lazy    *)
(* plans; the engine runs where files are opened (104, 105, 108) and where *)
(* a frame is saved (116, 123).  Nothing in run() catches the exception.   *)
(***************************************************************************)
EnginePoints == {"read_station", "read_weather", "read_trips", "load_hires",
                 "load_daily"}

EngineFailure ==
  /\ exc = "none"
  /\ pc \in EnginePoints
  /\ Raise("EngineFailure")

Next == \/ ReadStation \/ ReadWeather \/ ReadTrips \/ GeoStart \/ GeoEnd
        \/ FormatStart \/ FormatEnd \/ Prepare \/ LoadHires \/ DailyAgg
        \/ DatetimeWeather \/ WeatherJoin \/ LoadDaily \/ Stop \/ EngineFailure

(***************************************************************************)
(* Inputs: the three CSV files.  Every specification below runs the same   *)
(* run(); they differ in the files they draw.                              *)
(***************************************************************************)
MaxTrips == 3
MaxStations == 2
MaxWeather == 2

TripColumns == <<"Rental Id", "Duration", "Bike Id", "End Date", "EndStation Id",
                 "EndStation Name", "Start Date", "StartStation Id",
                 "StartStation Name">>
StationColumns == <<"id", "name", "latitude", "longitude">>
WeatherColumns == <<"date", "tavg", "prcp">>

\* the bags of at most n rows drawn from R
BagsUpTo(R, n) == {SeqToBag(q) : q \in UNION {[1..k -> R] : k \in 0..n}}

TripRow(rid, dur, sdate, sst, sname, est) ==
  <<rid, dur, StrV("B7"), StrV("03/06/2021 10:15"), est, StrV("Soho Square"),
    sdate, sst, sname>>

StationRow(id, lat, lon) == <<id, StrV("dock"), lat, lon>>

Station1 == StationRow(StrV("1"), StrV("51.5292"), StrV("-0.1099"))
Station2 == StationRow(StrV("2"), StrV("51.4994"), StrV("-0.1975"))
StationNoLat == StationRow(StrV("1"), Null, StrV("-0.1099"))
StationNoLon == StationRow(StrV("2"), StrV("51.4994"), Null)

Weather1 == <<StrV("2021-06-01"), StrV("17.5"), StrV("0.0")>>
Weather2 == <<StrV("2021-06-02"), StrV("18"), StrV("2.3")>>

Day1Morning == StrV("01/06/2021 08:00")
Day1Evening == StrV("01/06/2021 17:45")
Day2 == StrV("02/06/2021 09:30")
IsoText == StrV("2021-06-01 08:00")

TripRowsE2E ==
  { TripRow(StrV("r1"), StrV("300"), Day1Morning, StrV("1"), StrV("River Street"), StrV("1")),
    TripRow(StrV("r2"), StrV("700"), Day1Evening, StrV("1"), StrV("River Street"), StrV("2")),
    TripRow(StrV("r3"), StrV("120"), Day2, StrV("2"), StrV("Park Lane"), StrV("2")),
    TripRow(Null, StrV("300"), Day1Morning, StrV("1"), StrV("River Street"), StrV("1")),
    TripRow(StrV("r5"), StrV("300"), IsoText, StrV("1"), StrV("River Street"), StrV("1")),
    TripRow(StrV("r6"), StrV("60"), Day2, StrV("1"), StrV("River Street"), StrV("1")) }

TripRowsGeo ==
  { TripRow(StrV("r1"), StrV("300"), Day1Morning, sst, StrV("River Street"), est) :
      sst \in {StrV("1"), StrV("2"), StrV("9"), Null}, est \in {StrV("1"), StrV("2")} }

TripRowsAgg ==
  { TripRow(rid, dur, sdate, StrV("1"), sname, StrV("1")) :
      rid \in {StrV("r1"), Null},
      dur \in {StrV("300"), StrV("700"), StrV("n/a")},
      sdate \in {Day1Morning, Day1Evening},
      sname \in {StrV("River Street")} }
  \cup { TripRow(StrV("r2"), StrV("300"), Day2, StrV("1"), StrV("River St"), StrV("1")),
         TripRow(StrV("r3"), StrV(""), Day1Morning, StrV("2"), StrV("Park Lane"), StrV("1")) }

(***************************************************************************)
(* Trip files with other headers: a column missing, a column already       *)
(* bearing its destination name, and additional columns.                   *)
(***************************************************************************)
TripValue ==
  [c \in {"Rental Id", "rental_id"} |-> StrV("r1")]
  @@ [c \in {"Duration"} |-> StrV("300")]
  @@ [c \in {"Bike Id", "bike_id"} |-> StrV("B7")]
  @@ [c \in {"End Date"} |-> StrV("03/06/2021 10:15")]
  @@ [c \in {"EndStation Id"} |-> StrV("2")]
  @@ [c \in {"EndStation Name", "end_station_name"} |-> StrV("Park Lane")]
  @@ [c \in {"Start Date"} |-> Day1Morning]
  @@ [c \in {"StartStation Id"} |-> StrV("1")]
  @@ [c \in {"StartStation Name"} |-> StrV("River Street")]
  @@ [c \in {"Total duration", "latitude", "start_location"} |-> StrV("extra")]

RECURSIVE Without(_, _)
Without(cols, name) ==
  IF cols = <<>> THEN <<>>
  ELSE (IF Head(cols) = name THEN <<>> ELSE <<Head(cols)>>) \o Without(Tail(cols), name)

Renamed(cols, old, new) == [i \in 1..Len(cols) |-> IF cols[i] = old THEN new ELSE cols[i]]

TripHeaders ==
  {TripColumns}
  \cup {Without(TripColumns, c) : c \in {TripColumns[i] : i \in 1..Len(TripColumns)}}
  \cup {Renamed(TripColumns, "Rental Id", "rental_id"),
        Renamed(TripColumns, "Bike Id", "bike_id"),
        Renamed(TripColumns, "EndStation Name", "end_station_name")}
  \cup {TripColumns \o <<x>> : x \in {"Total duration", "latitude", "start_location",
                                      "rental_id", "bike_id"}}
  \cup {<<"Total duration">> \o TripColumns}

SchemaTrips(cols, n) ==
  Frame(cols, IF n = 0 THEN EmptyBag
              ELSE [r \in {[i \in 1..Len(cols) |-> TripValue[cols[i]]]} |-> n])

InitRun ==
  /\ df = Unbound /\ df_station = Unbound /\ df_weather = Unbound
  /\ df_daily_agg = Unbound
  /\ bq_hires = <<>> /\ bq_daily = <<>>
  /\ pc = "read_station" /\ exc = "none"

Init ==
  /\ csv_trips \in {Frame(TripColumns, b) : b \in BagsUpTo(TripRowsE2E, MaxTrips)}
  /\ csv_station \in {Frame(StationColumns, b) :
                        b \in BagsUpTo({Station1, Station2}, MaxStations)}
  /\ csv_weather \in {Frame(WeatherColumns, b) :
                        b \in BagsUpTo({Weather1, Weather2}, MaxWeather)}
  /\ InitRun

InitGeo ==
  /\ csv_trips \in {Frame(TripColumns, b) : b \in BagsUpTo(TripRowsGeo, MaxTrips - 1)}
  /\ csv_station \in {Frame(StationColumns, b) :
                        b \in BagsUpTo({Station1, Station2, StationNoLat,
                                        StationNoLon}, MaxStations)}
  /\ csv_weather = Frame(WeatherColumns, SeqToBag(<<Weather1, Weather2>>))
  /\ InitRun

InitSchema ==
  /\ csv_trips \in {SchemaTrips(h, n) : h \in TripHeaders, n \in 0..MaxTrips}
  /\ csv_station = Frame(StationColumns, SeqToBag(<<Station1, Station2>>))
  /\ csv_weather \in {Frame(WeatherColumns, b) :
                        b \in BagsUpTo({Weather1, Weather2}, MaxWeather)}
  /\ InitRun

InitAgg ==
  /\ csv_trips \in {Frame(TripColumns, b) : b \in BagsUpTo(TripRowsAgg, MaxTrips)}
  /\ csv_station = Frame(StationColumns, SeqToBag(<<Station1, Station2>>))
  /\ csv_weather = Frame(WeatherColumns, SeqToBag(<<Weather1, Weather2>>))
  /\ InitRun

Spec == Init /\ [][Next]_vars
SpecGeo == InitGeo /\ [][Next]_vars
SpecSchema == InitSchema /\ [][Next]_vars
SpecAgg == InitAgg /\ [][Next]_vars

(***************************************************************************)
(* Vocabulary of the properties.                                           *)
(***************************************************************************)
Rows(f) == DOMAIN f.rows
Names(cols) == {cols[i] : i \in 1..Len(cols)}
Succeeds == exc = "none" /\ exc' = "none" /\ pc' # pc

BeforeHiresWritten == {"read_station", "read_weather", "read_trips", "geo_start",
                       "geo_end", "format_start", "format_end", "prepare",
                       "load_hires"}
AfterHiresWritten == {"daily_agg", "datetime_weather", "weather_join", "load_daily"}
DailyHandedOver == {"load_daily", "stop", "done"}

\* the calendar day of a start_date cell, whether or not truncated yet
DayOfCell(c) == IF IsTimestamp(c) THEN <<c.ts[1], c.ts[2], c.ts[3]>>
                ELSE IF IsDate(c) THEN c.date
                ELSE <<>>

\* the calendar day written in the texts the input files use
DayOfText ==
  (Day1Morning :> <<2021, 6, 1>>) @@ (Day1Evening :> <<2021, 6, 1>>)
  @@ (Day2 :> <<2021, 6, 2>>) @@ (IsoText :> <<>>)
  @@ (StrV("2021-06-01") :> <<2021, 6, 1>>) @@ (StrV("2021-06-02") :> <<2021, 6, 2>>)

\* the number written in the weather file's texts
FloatOfText ==
  (StrV("17.5") :> FloatV(175, 1)) @@ (StrV("0.0") :> FloatV(0, 0))
  @@ (StrV("18") :> FloatV(18, 0)) @@ (StrV("2.3") :> FloatV(23, 1))

StationIds == {Cell(csv_station, q, "id") : q \in Rows(csv_station)} \ {Null}

\* rows of frame f for the pair (day, station)
PairRows(f, day, sid) ==
  {r \in Rows(f) : /\ DayOfCell(Cell(f, r, "start_date")) = day
                   /\ Cell(f, r, "start_station_id") = sid}
PairCount(f, day, sid) == SumCounts(PairRows(f, day, sid), f.rows)

WeatherCount(day) ==
  SumCounts({w \in Rows(df_weather) : DayOfCell(Cell(df_weather, w, "date")) = day},
            df_weather.rows)

(***************************************************************************)
(* C1 as stated: whenever a run has failed, neither destination table has  *)
(* been appended to.                                                       *)
(***************************************************************************)
C1_AllOrNothing == exc # "none" => (bq_hires = <<>> /\ bq_daily = <<>>)

(***************************************************************************)
(* C1 amended: a run that has failed never appended to the daily table; it *)
(* appended nothing if it failed up to the trip-level write, and it has    *)
(* appended the trip table exactly once if it failed after that write.     *)
(***************************************************************************)
C1_FailureKeepsTripWrite ==
  exc # "none" => /\ bq_daily = <<>>
                  /\ pc \in BeforeHiresWritten \cup AfterHiresWritten
                  /\ pc \in BeforeHiresWritten => bq_hires = <<>>
                  /\ pc \in AfterHiresWritten => Len(bq_hires) = 1

C1_Witness ==
  /\ exc = "EngineFailure" /\ pc = "load_daily"
  /\ Len(bq_hires) = 1 /\ BagSize(bq_hires[1].rows) > 0
  /\ BagSize(df_daily_agg.rows) > 0

(***************************************************************************)
(* C3 as stated: the daily dataset handed to the write has at most one row *)
(* per (calendar date, start station) pair, whatever the inputs.           *)
(***************************************************************************)
C3_OneRowPerPair ==
  (pc \in DailyHandedOver /\ exc = "none") =>
    \A r \in Rows(df_daily_agg) :
      PairCount(df_daily_agg, DayOfCell(Cell(df_daily_agg, r, "start_date")),
                Cell(df_daily_agg, r, "start_station_id")) = 1

(***************************************************************************)
(* C3 amended: the output of DailyAggregator has one row per pair; the     *)
(* dataset handed to the write has, for each pair it contains, as many     *)
(* rows as the weather frame has rows for that date, hence at most one     *)
(* when the weather frame has at most one row per date.                    *)
(***************************************************************************)
C3_OneRowPerPairPerWeatherRow ==
  /\ pc \in {"datetime_weather", "weather_join"} =>
       \A r \in Rows(df_daily_agg) :
         PairCount(df_daily_agg, DayOfCell(Cell(df_daily_agg, r, "start_date")),
                   Cell(df_daily_agg, r, "start_station_id")) = 1
  /\ (pc \in DailyHandedOver /\ exc = "none") =>
       \A r \in Rows(df_daily_agg) :
         LET day == DayOfCell(Cell(df_daily_agg, r, "start_date"))
         IN /\ day # <<>>
            /\ PairCount(df_daily_agg, day,
                         Cell(df_daily_agg, r, "start_station_id")) = WeatherCount(day)

C3_Witness ==
  /\ pc = "load_daily" /\ exc = "none"
  /\ \A w \in Rows(df_weather) :
       WeatherCount(DayOfCell(Cell(df_weather, w, "date"))) = 1
  /\ BagSize(df_daily_agg.rows) = 2
  /\ BagSize(df.rows) = 3

(***************************************************************************)
(* C8: WeatherJoiner.  When get_weather_data has run, (a) no output row    *)
(* stems from an aggregate row whose date equals no weather row's parsed   *)
(* date, (b) every output row is an aggregate row extended with the prcp   *)
(* and tavg of a weather row of the same date, and (c) the output has no   *)
(* "date" column.                                                          *)
(***************************************************************************)
C8_WeatherJoinKeepsMatchesOnly ==
  [][(pc = "weather_join" /\ Succeeds) =>
       LET agg == df_daily_agg
           out == df_daily_agg'
           n == Len(agg.cols)
           dates == {Cell(df_weather, w, "date") : w \in Rows(df_weather)} \ {Null}
       IN /\ "date" \notin Names(out.cols)
          /\ Resolves(out.cols, "prcp") /\ Resolves(out.cols, "tavg")
          /\ \A a \in Rows(agg) :
               Cell(agg, a, "start_date") \notin dates =>
                 \A o \in Rows(out) : SubSeq(o, 1, n) # a
          /\ \A a \in Rows(agg) :
               Cell(agg, a, "start_date") \in dates =>
                 \E o \in Rows(out) : SubSeq(o, 1, n) = a
          /\ \A o \in Rows(out) :
               /\ SubSeq(o, 1, n) \in Rows(agg)
               /\ \E w \in Rows(df_weather) :
                    /\ Cell(df_weather, w, "date") # Null
                    /\ Cell(df_weather, w, "date") = Cell(out, o, "start_date")
                    /\ Cell(df_weather, w, "prcp") = Cell(out, o, "prcp")
                    /\ Cell(df_weather, w, "tavg") = Cell(out, o, "tavg")]_vars

\* an aggregate row was dropped for want of a weather row, another was kept
C8_Witness ==
  /\ pc = "load_daily" /\ exc = "none"
  /\ BagSize(df_daily_agg.rows) > 0
  /\ \E r \in Rows(df) :
       /\ DayOfCell(Cell(df, r, "start_date")) # <<>>
       /\ \A o \in Rows(df_daily_agg) :
            DayOfCell(Cell(df_daily_agg, o, "start_date"))
              # DayOfCell(Cell(df, r, "start_date"))

(***************************************************************************)
(* C9 as stated: when every trip's start and end station is in the station *)
(* reference and every start date is covered by the weather frame, the     *)
(* daily output has exactly one row per distinct (start date, start        *)
(* station) pair of the batch, with hire_count the number of raw trips of  *)
(* the pair and the prcp/tavg of the weather observation of the date.      *)
(***************************************************************************)
TripDay(t) == DayOfText[Cell(csv_trips, t, "Start Date")]
WeatherDay(w) == DayOfText[Cell(csv_weather, w, "date")]
RawPairCount(day, sid) ==
  SumCounts({t \in Rows(csv_trips) :
               TripDay(t) = day /\ Cell(csv_trips, t, "StartStation Id") = sid},
            csv_trips.rows)

C9_Covered ==
  \A t \in Rows(csv_trips) :
    /\ Cell(csv_trips, t, "StartStation Id") \in StationIds
    /\ Cell(csv_trips, t, "EndStation Id") \in StationIds
    /\ TripDay(t) # <<>>
    /\ \E w \in Rows(csv_weather) : WeatherDay(w) = TripDay(t)

C9_DailyAsExpected ==
  LET daily == bq_daily[1]
  IN /\ \A t \in Rows(csv_trips) :
          LET day == TripDay(t)
              sid == Cell(csv_trips, t, "StartStation Id")
          IN /\ PairCount(daily, day, sid) = 1
             /\ \A o \in PairRows(daily, day, sid) :
                  /\ Cell(daily, o, "hire_count") = IntV(RawPairCount(day, sid))
                  /\ \E w \in Rows(csv_weather) :
                       /\ WeatherDay(w) = day
                       /\ Cell(daily, o, "prcp")
                            = FloatOfText[Cell(csv_weather, w, "prcp")]
                       /\ Cell(daily, o, "tavg")
                            = FloatOfText[Cell(csv_weather, w, "tavg")]
     /\ \A o \in Rows(daily) :
          \E t \in Rows(csv_trips) :
            /\ TripDay(t) = DayOfCell(Cell(daily, o, "start_date"))
            /\ Cell(csv_trips, t, "StartStation Id")
                 = Cell(daily, o, "start_station_id")

C9_EndToEnd == (pc \in {"stop", "done"} /\ C9_Covered) => C9_DailyAsExpected

(***************************************************************************)
(* C9 amended: the same, provided in addition that no station identifier   *)
(* occurs twice in the station reference, no date occurs twice in the      *)
(* weather frame, and every trip has a rental identifier.                  *)
(***************************************************************************)
C9_Unambiguous ==
  /\ \A q \in Rows(csv_station) :
       SumCounts({x \in Rows(csv_station) :
                    Cell(csv_station, x, "id") = Cell(csv_station, q, "id")},
                 csv_station.rows) = 1
  /\ \A w \in Rows(csv_weather) :
       SumCounts({x \in Rows(csv_weather) : WeatherDay(x) = WeatherDay(w)},
                 csv_weather.rows) = 1
  /\ \A t \in Rows(csv_trips) : Cell(csv_trips, t, "Rental Id") # Null

C9_EndToEndUnambiguous ==
  (pc \in {"stop", "done"} /\ C9_Covered /\ C9_Unambiguous) => C9_DailyAsExpected

\* three trips, two sharing station and date: two rows, hire_count 2 and 1
C9_Witness ==
  /\ pc = "done" /\ C9_Covered /\ C9_Unambiguous
  /\ BagSize(csv_trips.rows) = 3
  /\ BagSize(bq_daily[1].rows) = 2
  /\ \E o \in Rows(bq_daily[1]) : Cell(bq_daily[1], o, "hire_count") = IntV(2)
  /\ \E o \in Rows(bq_daily[1]) : Cell(bq_daily[1], o, "hire_count") = IntV(1)

(***************************************************************************)
(* C10 as stated: every trip whose Start Date text does not parse is       *)
(* written to the trip-level output with a null start_date, and no row of  *)
(* the final daily output has a null start_date.                           *)
(***************************************************************************)
WrittenWithNullDate(t) ==
  \E o \in Rows(bq_hires[1]) :
    /\ Cell(bq_hires[1], o, "rental_id") = Cell(csv_trips, t, "Rental Id")
    /\ Cell(bq_hires[1], o, "start_station_id") = Cell(csv_trips, t, "StartStation Id")
    /\ Cell(bq_hires[1], o, "start_date") = Null

NoNullDateInDaily ==
  \A o \in Rows(bq_daily[1]) :
    LET day == DayOfCell(Cell(bq_daily[1], o, "start_date"))
    IN /\ day # <<>>
       /\ Cell(bq_daily[1], o, "hire_count").int
            <= PairCount(bq_hires[1], day, Cell(bq_daily[1], o, "start_station_id"))

C10_UnparsedTripWritten ==
  /\ Len(bq_hires) = 1 =>
       \A t \in Rows(csv_trips) : TripDay(t) = <<>> => WrittenWithNullDate(t)
  /\ Len(bq_daily) = 1 => NoNullDateInDaily

(***************************************************************************)
(* C10 amended: every such trip whose start and end station identifiers    *)
(* are both in the station reference is written to the trip-level output   *)
(* with a null start_date; no row of the final daily output has a null     *)
(* start_date, and none counts more trips than were written with that      *)
(* calendar date and station.                                              *)
(***************************************************************************)
C10_UnparsedMatchedTripWritten ==
  /\ Len(bq_hires) = 1 =>
       \A t \in Rows(csv_trips) :
         (/\ TripDay(t) = <<>>
          /\ Cell(csv_trips, t, "StartStation Id") \in StationIds
          /\ Cell(csv_trips, t, "EndStation Id") \in StationIds)
         => WrittenWithNullDate(t)
  /\ Len(bq_daily) = 1 => NoNullDateInDaily

C10_Witness ==
  /\ Len(bq_daily) = 1
  /\ BagSize(bq_daily[1].rows) > 0
  /\ \E t \in Rows(csv_trips) : TripDay(t) = <<>> /\ WrittenWithNullDate(t)

(***************************************************************************)
(* GeoEnricher steps: lines 110 (start) and 111 (end).                     *)
(***************************************************************************)
GeoStep == pc \in {"geo_start", "geo_end"} /\ Succeeds
GeoKey == IF pc = "geo_start" THEN "StartStation Id" ELSE "EndStation Id"
GeoLocation == IF pc = "geo_start" THEN "start_location" ELSE "end_location"
ReferenceIds == {Cell(df_station, q, "id") : q \in Rows(df_station)} \ {Null}

(***************************************************************************)
(* C4: GeoEnricher, for either role.  No output row stems from a trip row  *)
(* whose station identifier equals no identifier of the reference table;   *)
(* every output row is a trip row, extended, whose identifier matched.     *)
(***************************************************************************)
C4_UnmatchedTripsDropped ==
  [][GeoStep =>
       LET n == Len(df.cols)
       IN /\ \A r \in Rows(df) :
               Cell(df, r, GeoKey) \notin ReferenceIds =>
                 \A o \in Rows(df') : SubSeq(o, 1, n) # r
          /\ \A o \in Rows(df') :
               /\ SubSeq(o, 1, n) \in Rows(df)
               /\ Cell(df, SubSeq(o, 1, n), GeoKey) \in ReferenceIds]_vars

\* the start join dropped some trip and kept another
C4_Witness ==
  /\ pc = "geo_end" /\ exc = "none"
  /\ BagSize(df.rows) > 0
  /\ \E t \in Rows(csv_trips) :
       /\ Cell(csv_trips, t, "StartStation Id") \notin ReferenceIds
       /\ \A o \in Rows(df) : Cell(df, o, "Rental Id") = Cell(csv_trips, t, "Rental Id")
                              => Cell(df, o, "StartStation Id")
                                   # Cell(csv_trips, t, "StartStation Id")

(***************************************************************************)
(* C5 as stated: for every trip row whose station identifier is in the     *)
(* reference table, the output row's location is the matched station's     *)
(* latitude, then ", ", then its longitude.                                *)
(***************************************************************************)
C5_LocationIsLatCommaLon ==
  [][GeoStep =>
       LET n == Len(df.cols)
       IN /\ \A r \in Rows(df) :
               Cell(df, r, GeoKey) \in ReferenceIds =>
                 \E o \in Rows(df') : SubSeq(o, 1, n) = r
          /\ \A o \in Rows(df') :
               \E q \in Rows(df_station) :
                 /\ Cell(df_station, q, "id") = Cell(df, SubSeq(o, 1, n), GeoKey)
                 /\ IsStr(Cell(df_station, q, "latitude"))
                 /\ IsStr(Cell(df_station, q, "longitude"))
                 /\ Cell(df', o, GeoLocation)
                      = StrV(Cell(df_station, q, "latitude").str \o ", "
                             \o Cell(df_station, q, "longitude").str)]_vars

(***************************************************************************)
(* C5 amended: ... the output row's location is the matched station's      *)
(* latitude, then ", ", then its longitude when the station has both, and  *)
(* is null when the station's latitude or longitude is null.               *)
(***************************************************************************)
C5_LocationIsLatCommaLonOrNull ==
  [][GeoStep =>
       LET n == Len(df.cols)
       IN /\ \A r \in Rows(df) :
               Cell(df, r, GeoKey) \in ReferenceIds =>
                 \E o \in Rows(df') : SubSeq(o, 1, n) = r
          /\ \A o \in Rows(df') :
               \E q \in Rows(df_station) :
                 /\ Cell(df_station, q, "id") = Cell(df, SubSeq(o, 1, n), GeoKey)
                 /\ IF /\ IsStr(Cell(df_station, q, "latitude"))
                       /\ IsStr(Cell(df_station, q, "longitude"))
                    THEN Cell(df', o, GeoLocation)
                           = StrV(Cell(df_station, q, "latitude").str \o ", "
                                  \o Cell(df_station, q, "longitude").str)
                    ELSE Cell(df', o, GeoLocation) = Null]_vars

\* one trip located at its start station, null at an end station without longitude
C5_Witness ==
  /\ pc = "format_start" /\ exc = "none"
  /\ \E o \in Rows(df) :
       /\ Cell(df, o, "start_location") = StrV("51.5292, -0.1099")
       /\ Cell(df, o, "end_location") = Null

(***************************************************************************)
(* SchemaMapper step: line 115.                                            *)
(***************************************************************************)
RequiredSource == {"Rental Id", "Duration", "Bike Id", "End Date", "EndStation Id",
                   "EndStation Name", "Start Date", "StartStation Id",
                   "StartStation Name"}

DestinationOf ==
  [c \in RequiredSource |->
     CASE c = "Rental Id" -> "rental_id"
       [] c = "Duration" -> "duration"
       [] c = "Bike Id" -> "bike_id"
       [] c = "End Date" -> "end_date"
       [] c = "EndStation Id" -> "end_station_id"
       [] c = "EndStation Name" -> "end_station_name"
       [] c = "Start Date" -> "start_date"
       [] c = "StartStation Id" -> "start_station_id"
       [] c = "StartStation Name" -> "start_station_name"]

\* the canonical output columns and, for each, the input column it holds
ExpectedOutput ==
  << <<"rental_id", "Rental Id">>, <<"duration", "Duration">>,
     <<"bike_id", "Bike Id">>, <<"start_date", "Start Date">>,
     <<"start_station_id", "StartStation Id">>,
     <<"start_station_name", "StartStation Name">>,
     <<"start_location", "start_location">>, <<"end_date", "End Date">>,
     <<"end_station_id", "EndStation Id">>,
     <<"end_station_name", "EndStation Name">>,
     <<"end_location", "end_location">> >>

(***************************************************************************)
(* C2 as stated: whenever the frame reaching SchemaMapper lacks one of the *)
(* nine required source columns, SchemaMapper fails, the run aborts, and   *)
(* nothing has been written to either table.                               *)
(***************************************************************************)
C2_MissingSourceColumnFails ==
  [][(Running("prepare") /\ \E c \in RequiredSource : c \notin Names(df.cols)) =>
       (/\ exc' = "AnalysisException" /\ pc' = "prepare"
        /\ bq_hires' = <<>> /\ bq_daily' = <<>>)]_vars

(***************************************************************************)
(* C2 amended: whenever the frame reaching SchemaMapper has, for one of    *)
(* the nine required source columns, neither that column nor a column      *)
(* already bearing its destination name, SchemaMapper fails, the run       *)
(* aborts, nothing has been written to either table, and nothing happens   *)
(* after the failure.                                                      *)
(***************************************************************************)
C2_MissingColumnAndDestinationFails ==
  [][/\ (Running("prepare")
         /\ \E c \in RequiredSource :
              c \notin Names(df.cols) /\ DestinationOf[c] \notin Names(df.cols)) =>
          (/\ exc' = "AnalysisException" /\ pc' = "prepare"
           /\ bq_hires' = <<>> /\ bq_daily' = <<>>)
     /\ exc # "none" => UNCHANGED vars]_vars

C2_Witness ==
  /\ pc = "prepare" /\ exc = "AnalysisException"
  /\ "Bike Id" \notin Names(df.cols) /\ "bike_id" \notin Names(df.cols)
  /\ BagSize(df.rows) > 0
  /\ bq_hires = <<>> /\ bq_daily = <<>>

(***************************************************************************)
(* C6 as stated: for every frame holding the required source columns plus  *)
(* start_location and end_location, and any extra columns, SchemaMapper    *)
(* returns exactly the eleven canonical columns, in order, each holding    *)
(* the values of its source column.                                        *)
(***************************************************************************)
MappedAsExpected ==
  /\ exc' = "none" /\ pc' = "load_hires"
  /\ df'.cols = [k \in 1..Len(ExpectedOutput) |-> ExpectedOutput[k][1]]
  /\ BagSize(df'.rows) = BagSize(df.rows)
  /\ \A r \in Rows(df) :
       [k \in 1..Len(ExpectedOutput) |-> Cell(df, r, ExpectedOutput[k][2])]
         \in Rows(df')
  /\ \A o \in Rows(df') :
       \E r \in Rows(df) :
         o = [k \in 1..Len(ExpectedOutput) |-> Cell(df, r, ExpectedOutput[k][2])]

C6_CanonicalOutput ==
  [][(Running("prepare")
      /\ RequiredSource \cup {"start_location", "end_location"} \subseteq Names(df.cols))
     => MappedAsExpected]_vars

(***************************************************************************)
(* C6 amended: ... and any extra columns none of which already bears one   *)
(* of the nine destination names of the rename table, ...                  *)
(***************************************************************************)
C6_CanonicalOutputNoClash ==
  [][(/\ Running("prepare")
      /\ \A c \in RequiredSource \cup {"start_location", "end_location"} :
           Resolves(df.cols, c)
      /\ \A d \in RequiredSource : DestinationOf[d] \notin Names(df.cols))
     => MappedAsExpected]_vars

C6_Witness ==
  /\ pc = "load_hires" /\ exc = "none"
  /\ "Total duration" \in Names(csv_trips.cols)
  /\ df.cols = [k \in 1..Len(ExpectedOutput) |-> ExpectedOutput[k][1]]
  /\ BagSize(df.rows) > 0

(***************************************************************************)
(* DailyAggregator step: line 118.                                         *)
(***************************************************************************)
RECURSIVE SumNullAsZero(_, _, _)
SumNullAsZero(S, B, p) ==
  IF S = {} THEN 0
  ELSE LET r == CHOOSE x \in S : TRUE
       IN B[r] * (IF IsInt(r[p]) THEN r[p].int ELSE 0)
          + SumNullAsZero(S \ {r}, B, p)

GroupTotal(day, sid) ==
  SumNullAsZero(PairRows(df, day, sid), df.rows, ColPos(df.cols, "duration"))
GroupHasDuration(day, sid) ==
  \E r \in PairRows(df, day, sid) : Cell(df, r, "duration") # Null
GroupHires(day, sid) ==
  SumCounts({r \in PairRows(df, day, sid) : Cell(df, r, "rental_id") # Null}, df.rows)

(***************************************************************************)
(* C7 as stated: for every group of trips sharing (calendar start date,    *)
(* start station), the output row's total_duration is the sum of the       *)
(* group's durations, null counting as zero, and its hire_count is the     *)
(* number of rows of the group with a non-null rental_id.                  *)
(***************************************************************************)
C7_TotalsNullAsZero ==
  [][(pc = "daily_agg" /\ Succeeds) =>
       \A r \in Rows(df) :
         LET day == DayOfCell(Cell(df, r, "start_date"))
             sid == Cell(df, r, "start_station_id")
             out == df_daily_agg'
         IN /\ PairCount(out, day, sid) = 1
            /\ \A o \in PairRows(out, day, sid) :
                 /\ Cell(out, o, "total_duration") = IntV(GroupTotal(day, sid))
                 /\ Cell(out, o, "hire_count") = IntV(GroupHires(day, sid))]_vars

(***************************************************************************)
(* C7 amended: ... total_duration is the sum of the group's non-null       *)
(* durations when the group has one, and is null when every duration of    *)
(* the group is null; hire_count is the number of rows of the group with a *)
(* non-null rental_id.                                                     *)
(***************************************************************************)
C7_TotalsNullWhenAllNull ==
  [][(pc = "daily_agg" /\ Succeeds) =>
       \A r \in Rows(df) :
         LET day == DayOfCell(Cell(df, r, "start_date"))
             sid == Cell(df, r, "start_station_id")
             out == df_daily_agg'
         IN /\ PairCount(out, day, sid) = 1
            /\ \A o \in PairRows(out, day, sid) :
                 /\ Cell(out, o, "total_duration")
                      = IF GroupHasDuration(day, sid)
                        THEN IntV(GroupTotal(day, sid)) ELSE Null
                 /\ Cell(out, o, "hire_count") = IntV(GroupHires(day, sid))]_vars

\* durations 300 and 700 on one day at one station: 1000 and 2 hires
C7_Witness ==
  /\ pc = "datetime_weather" /\ exc = "none"
  /\ BagSize(df.rows) = 2
  /\ \E r \in Rows(df) : Cell(df, r, "duration") = IntV(300)
  /\ \E r \in Rows(df) : Cell(df, r, "duration") = IntV(700)
  /\ \E o \in Rows(df_daily_agg) :
       /\ Cell(df_daily_agg, o, "total_duration") = IntV(1000)
       /\ Cell(df_daily_agg, o, "hire_count") = IntV(2)

====
